---- MODULE Spec2Model ----
(***************************************************************************)
(* Portfolio Monte Carlo projection (sbagio/fi_tools).                     *)
(*                                                                         *)
(* Two programs of the repository are modelled as one state machine:       *)
(*   - the service: backend/app.py (/simulate) calling                     *)
(*     backend/montecarlo.py run_monte_carlo_simulation (single-factor);   *)
(*   - the script claude_3.5_monte_carlo.py (multi-factor).                *)
(*                                                                         *)
(* Numbers.  A Python float is modelled as an exact fraction <<n, d>> in   *)
(* lowest terms with d > 0; <<0, 0>> is NaN (it propagates through every   *)
(* operation and makes every comparison false, as in IEEE 754).  np.log    *)
(* and np.exp are taken to base 2 throughout, and a value in log space is  *)
(* kept as [arg, plus], meaning log(arg) + plus, so that exp of it is the  *)
(* exact fraction arg * 2^plus.  Volatilities are whole numbers of that    *)
(* unit and a standard normal draw is -1 or +1.                            *)
(***************************************************************************)
EXTENDS Integers, Sequences, FiniteSets, TLC

\* ------------------------------------------------------------------ bounds
MaxRows == 2
MaxSims == 2
MaxYears == 2
MaxSeed == 1
MaxCalls == 2

\* ------------------------------------------------------ exact fractions
NaN == <<0, 0>>
IsNaN(x) == x[2] = 0

Abs(n) == IF n < 0 THEN 0 - n ELSE n

RECURSIVE GCD(_, _)
GCD(a, b) == IF b = 0 THEN a ELSE GCD(b, a % b)

Frac(n, d) ==
    IF d = 0 THEN NaN
    ELSE LET s == IF d < 0 THEN 0 - 1 ELSE 1
             g == GCD(Abs(n), Abs(d))
         IN  <<(s * n) \div g, (s * d) \div g>>

Whole(n) == <<n, 1>>
Zero == Whole(0)
One == Whole(1)
Half == <<1, 2>>

\* Denominators are cancelled against each other before multiplying, which
\* keeps the intermediate integers small.
Add(a, b) == IF IsNaN(a) \/ IsNaN(b) THEN NaN
             ELSE LET g == GCD(a[2], b[2])
                  IN  Frac(a[1] * (b[2] \div g) + b[1] * (a[2] \div g),
                           (a[2] \div g) * b[2])
Sub(a, b) == Add(a, <<0 - b[1], b[2]>>)
Mul(a, b) == IF IsNaN(a) \/ IsNaN(b) THEN NaN
             ELSE LET x == Frac(a[1], b[2])
                      y == Frac(b[1], a[2])
                  IN  <<x[1] * y[1], x[2] * y[2]>>
Div(a, b) == IF IsNaN(a) \/ IsNaN(b) THEN NaN
             ELSE IF b[1] = 0 THEN NaN
             ELSE IF b[1] < 0 THEN Mul(a, <<0 - b[2], 0 - b[1]>>)
             ELSE Mul(a, <<b[2], b[1]>>)

\* a <= b and a < b on floats: false as soon as one side is NaN
Leq(a, b) == /\ ~IsNaN(a)
             /\ ~IsNaN(b)
             /\ LET g == GCD(a[2], b[2])
                IN  a[1] * (b[2] \div g) <= b[1] * (a[2] \div g)
Less(a, b) == /\ ~IsNaN(a)
              /\ ~IsNaN(b)
              /\ LET g == GCD(a[2], b[2])
                 IN  a[1] * (b[2] \div g) < b[1] * (a[2] \div g)

RECURSIVE Pow(_, _)
Pow(x, n) ==
    IF n <= 0 THEN One
    ELSE LET h == Pow(x, n \div 2)
         IN  IF n % 2 = 0 THEN Mul(h, h) ELSE Mul(x, Mul(h, h))

RECURSIVE SumSeq(_)
SumSeq(s) == IF s = <<>> THEN Zero ELSE Add(s[1], SumSeq(Tail(s)))

RECURSIVE ProdSeq(_)
ProdSeq(s) == IF s = <<>> THEN One ELSE Mul(s[1], ProdSeq(Tail(s)))

Min(a, b) == IF a < b THEN a ELSE b

RECURSIVE Pow2(_)
Pow2(k) == IF k = 0 THEN One
           ELSE IF k > 0 THEN Mul(Whole(2), Pow2(k - 1))
           ELSE Mul(Half, Pow2(k + 1))

\* ----------------------------------------------------------- log space
\* np.log(x): the value log(x), kept unevaluated
Log(x) == [arg |-> x, plus |-> 0]

\* np.exp(l): NaN for the log of a NaN or of a negative number; exp(log 0) = 0
Exp(l) == IF IsNaN(l.arg) \/ Less(l.arg, Zero) THEN NaN
          ELSE Mul(l.arg, Pow2(l.plus))

\* ------------------------------------------------------- random source
\* The z-th standard normal variate of the generator seeded with seed:
\* bit i of the seed decides the sign of draw i.
Stream(seed, i) == 2 * ((seed \div (2 ^ i)) % 2) - 1

\* loc + scale * z for the variate z (Generator.normal, and the exponent of
\* np.random.lognormal); scale is a whole number of units, or NaN
Normal(loc, scale, z) ==
    IF IsNaN(scale) THEN [arg |-> NaN, plus |-> 0]
    ELSE [arg |-> loc.arg, plus |-> loc.plus + scale[1] * z]

\* l - x in log space; x is a whole number of units, or NaN
LogMinus(l, x) ==
    IF IsNaN(x) THEN [arg |-> NaN, plus |-> 0]
    ELSE [arg |-> l.arg, plus |-> l.plus - x[1]]

\* -------------------------------------------------------- market data
Assets == {"VGT", "SMH"}

\* One day of closing prices as yfinance returns it; NaN is a missing price.
PriceRows ==
    { [a \in Assets |-> IF a = "VGT" THEN Whole(1) ELSE Whole(2)],
      [a \in Assets |-> IF a = "VGT" THEN Whole(2) ELSE Whole(2)],
      [a \in Assets |-> IF a = "VGT" THEN NaN ELSE Whole(2)] }

RECURSIVE SeqsUpTo(_, _)
SeqsUpTo(S, n) ==
    IF n = 0 THEN {<<>>}
    ELSE LET shorter == SeqsUpTo(S, n - 1)
         IN  shorter \cup {Append(s, x) : s \in shorter, x \in S}

CleanRows == {r \in PriceRows : \A a \in Assets : ~IsNaN(r[a])}

\* What the market-data provider serves: the columns it has and their closes.
\* The service sees gaps; the script is given one more day, all days clean,
\* since its volatility needs two daily returns.
ServiceMarkets ==
    [cols : {Assets, {"VGT"}}, close : SeqsUpTo(PriceRows, MaxRows)]
ScriptMarkets ==
    [cols : {Assets, {"VGT"}}, close : SeqsUpTo(CleanRows, MaxRows + 1)]

\* ------------------------------------------------------- pandas frames
\* A frame is [cols, rows]: rows is a sequence of functions from cols.

\* raw_data["Close"] for the columns yfinance returned for the request
CloseFrame(mkt, requested) ==
    LET cs == requested \cap mkt.cols
    IN  [cols |-> cs,
         rows |-> [i \in 1..Len(mkt.close) |-> [c \in cs |-> mkt.close[i][c]]]]

\* DataFrame.dropna(): drops every row holding a missing value
DropNaAny(f) ==
    [cols |-> f.cols,
     rows |-> SelectSeq(f.rows, LAMBDA r : \A c \in f.cols : ~IsNaN(r[c]))]

\* DataFrame.dropna(how="all"): drops the rows whose values are all missing
DropNaAll(f) ==
    [cols |-> f.cols,
     rows |-> SelectSeq(f.rows, LAMBDA r : \E c \in f.cols : ~IsNaN(r[c]))]

\* DataFrame.pct_change(): row i is row i / row i-1 - 1, the first row NaN
PctChange(f) ==
    [cols |-> f.cols,
     rows |-> [i \in 1..Len(f.rows) |->
                 [c \in f.cols |->
                    IF i = 1 THEN NaN
                    ELSE Sub(Div(f.rows[i][c], f.rows[i - 1][c]), One)]]]

Column(f, c) == [i \in 1..Len(f.rows) |-> f.rows[i][c]]

\* Series.mean(): the mean of the values present, NaN for none
SeriesMean(s) ==
    LET present == SelectSeq(s, LAMBDA x : ~IsNaN(x))
    IN  Div(SumSeq(present), Whole(Len(present)))

\* Series.prod(): the product of the values present (1 for none)
SeriesProd(s) == ProdSeq(SelectSeq(s, LAMBDA x : ~IsNaN(x)))

\* -------------------------------------------------------- annualization
trading_days_per_year == 252

\* Grid values standing for quantities whose exact value is irrational or too
\* large: an annualized growth factor above 1, and a positive volatility.
GrowthCap == Whole(2)
VolGrid == Whole(2)

\* x ** e for a positive exponent e.  The power of a fraction other than 1
\* leaves the range of machine integers, so it is kept on a three-point
\* grid: GrowthCap for growth, 1 / GrowthCap for decline, the exact power at 1.
Power(x, e) ==
    IF IsNaN(x) THEN NaN
    ELSE IF Less(One, x) THEN GrowthCap
    ELSE IF Less(x, One) THEN Div(One, GrowthCap)
    ELSE Pow(x, e)

\* mean_annual_ret = (1 + mean_daily_ret) ** trading_days_per_year - 1
MeanAnnualRet(mean_daily_ret) ==
    Sub(Power(Add(One, mean_daily_ret), trading_days_per_year), One)

\* (1 + daily_returns[column]).prod() ** (252 / len(daily_returns)) - 1,
\* for len(daily_returns) > 0
GeometricAnnualRet(column, len) ==
    Sub(Power(SeriesProd([i \in 1..Len(column) |-> Add(One, column[i])]),
              trading_days_per_year \div len),
        One)

\* daily_returns[column].std() * np.sqrt(252): the sample deviation (ddof = 1)
\* is NaN for fewer than two values and 0 for equal ones; a positive one is
\* kept as VolGrid units.
AnnualVolatility(column) ==
    LET present == SelectSeq(column, LAMBDA x : ~IsNaN(x))
    IN  IF Len(present) < 2 THEN NaN
        ELSE IF \A i \in 1..Len(present) : present[i] = present[1] THEN Zero
        ELSE VolGrid

\* sum(w * r for w, r in zip(weights, avg_annual_returns)): zip stops at the
\* shorter of the two lists
WeightedSum(ws, rs) ==
    SumSeq([i \in 1..Min(Len(ws), Len(rs)) |-> Mul(ws[i], rs[i])])

\* ---------------------------------------------------------- percentiles
RECURSIVE Insert(_, _)
Insert(x, s) ==
    IF s = <<>> THEN <<x>>
    ELSE IF Leq(x, s[1]) THEN <<x>> \o s
    ELSE <<s[1]>> \o Insert(x, Tail(s))

RECURSIVE Sorted(_)
Sorted(s) == IF s = <<>> THEN <<>> ELSE Insert(s[1], Sorted(Tail(s)))

HasNaN(s) == \E i \in 1..Len(s) : IsNaN(s[i])

\* np.percentile(a, q) of a non-empty array, linear interpolation: with
\* h = (N - 1) * q / 100, the value a[floor h] + (a[floor h + 1] - a[floor h])
\* * frac h of the sorted array (0-based); NaN when the array holds a NaN.
Percentile(a, q) ==
    LET srt == Sorted(a)
        n == Len(a)
        lo == ((n - 1) * q) \div 100
        t == Frac(((n - 1) * q) % 100, 100)
        hi == Min(lo + 1, n - 1)
    IN  IF HasNaN(a) THEN NaN
        ELSE Add(srt[lo + 1], Mul(Sub(srt[hi + 1], srt[lo + 1]), t))

\* np.mean(a)
Mean(a) == Div(SumSeq(a), Whole(Len(a)))

\* ------------------------------------------------------------ the state
VARIABLES
    program,                \* "service" (backend/) or "script" (claude_3.5_monte_carlo.py)
    market,                 \* what the market-data provider serves: [cols, close]
    pc,                     \* where the running program stands
    via,                    \* "route" (/simulate) or "direct" (a call of the function)
    status,                 \* the HTTP status of the route's response, 0 for none
    error,                  \* the exception that ended the run, "" for none
    args,                   \* the run's arguments (the script's: its settings)
    data,                   \* the price frame
    daily_returns,
    avg_annual_returns,
    portfolio_mean_return,
    mu_log,
    sigma_log,
    total_growth,
    final_values_list,
    returns,                \* the script's annual return per fetched asset
    volatility,             \* the script's annual volatility per fetched asset
    asset_i,                \* holdings done in the current year
    annual_return,
    value,
    portfolio_returns,
    rng,                    \* [source, seed, pos]: the generator and the draws taken
    sim_i,                  \* paths begun by the outer loop
    year_i,                 \* years done in the current path
    results,
    prev,                   \* the previous completed run: [set, args, seed, results]
    calls                   \* runs started

env == <<program, market>>
call == <<via, status, error, args>>
frames == <<data, daily_returns>>
single == <<avg_annual_returns, portfolio_mean_return, mu_log, sigma_log,
            total_growth, final_values_list>>
multi == <<returns, volatility, asset_i, annual_return, value,
           portfolio_returns>>
loop == <<rng, sim_i, year_i>>

vars == <<env, pc, call, frames, single, multi, loop, results, prev, calls>>

\* ---------------------------------------------------------- the inputs
TickerLists == {<<"VGT">>, <<"VGT", "SMH">>}
WeightLists == {<<One>>, <<Half, Half>>}
Investments == {Whole(1), Whole(3)}
Volatilities == {Zero, One}

Requests ==
    [tickers : TickerLists, weights : WeightLists,
     initial_investment : Investments, years : 0..MaxYears,
     n_sims : 0..MaxSims, portfolio_std_est : Volatilities]

\* The script's settings: initial_value, and run_simulation's parameters.
Settings ==
    [initial_value : Investments, num_simulations : 0..MaxSims,
     years : 0..MaxYears]

\* holdings: the script's portfolio, an ordered mapping asset -> weight
holdings ==
    <<[asset |-> "VGT", weight |-> <<3, 4>>],
      [asset |-> "SMH", weight |-> <<1, 4>>]>>

NoArgs == [none |-> TRUE]
EmptyFrame == [cols |-> {}, rows |-> <<>>]
NoStats == [a \in {} |-> Zero]
NoRng == [source |-> "none", seed |-> 0, pos |-> 0]
NoResults ==
    [built |-> FALSE, pct_25 |-> Zero, pct_50 |-> Zero, pct_75 |-> Zero,
     mean |-> Zero, all_final_values |-> <<>>]
NoPrev == [set |-> FALSE, args |-> NoArgs, seed |-> 0, results |-> NoResults]

\* What a run is given: any input, and after a completed run the same input
\* again, with the same or twice the investment.
Calls ==
    IF prev.set
    THEN {prev.args,
          [prev.args EXCEPT !.initial_investment = Mul(Whole(2), @)]}
    ELSE Requests

Runs ==
    IF prev.set
    THEN {prev.args, [prev.args EXCEPT !.initial_value = Mul(Whole(2), @)]}
    ELSE Settings

Init ==
    /\ program \in {"service", "script"}
    /\ market \in IF program = "service" THEN ServiceMarkets ELSE ScriptMarkets
    /\ pc = "idle"
    /\ via = "none"
    /\ status = 0
    /\ error = ""
    /\ args = NoArgs
    /\ data = EmptyFrame
    /\ daily_returns = EmptyFrame
    /\ avg_annual_returns = <<>>
    /\ portfolio_mean_return = Zero
    /\ mu_log = Log(One)
    /\ sigma_log = Zero
    /\ total_growth = One
    /\ final_values_list = <<>>
    /\ returns = NoStats
    /\ volatility = NoStats
    /\ asset_i = 0
    /\ annual_return = Zero
    /\ value = Zero
    /\ portfolio_returns = <<>>
    /\ rng = NoRng
    /\ sim_i = 0
    /\ year_i = 0
    /\ results = NoResults
    /\ prev = NoPrev
    /\ calls = 0

\* ------------------------------------------------- backend/app.py simulate
\* "tickers" or "weights" is not in the payload: 400, nothing runs.
SimulateNoKeys ==
    /\ program = "service"
    /\ pc = "idle"
    /\ calls < MaxCalls
    /\ pc' = "responded"
    /\ via' = "route"
    /\ status' = 400
    /\ calls' = calls + 1
    /\ UNCHANGED <<env, error, args, frames, single, multi, loop, results,
                   prev>>

\* The lists differ in length: 400, nothing runs.
SimulateMismatch ==
    /\ program = "service"
    /\ pc = "idle"
    /\ calls < MaxCalls
    /\ \E a \in Calls :
         /\ Len(a.tickers) # Len(a.weights)
         /\ args' = a
    /\ pc' = "responded"
    /\ via' = "route"
    /\ status' = 400
    /\ calls' = calls + 1
    /\ UNCHANGED <<env, error, frames, single, multi, loop, results, prev>>

\* The payload passes both checks: run_monte_carlo_simulation is called.
SimulateCall ==
    /\ program = "service"
    /\ pc = "idle"
    /\ calls < MaxCalls
    /\ \E a \in Calls :
         /\ Len(a.tickers) = Len(a.weights)
         /\ args' = a
    /\ pc' = "download"
    /\ via' = "route"
    /\ calls' = calls + 1
    /\ UNCHANGED <<env, status, error, frames, single, multi, loop, results,
                   prev>>

\* ------------------------- backend/montecarlo.py run_monte_carlo_simulation
\* A caller other than the route calls the function with any arguments.
DirectCall ==
    /\ program = "service"
    /\ pc = "idle"
    /\ calls < MaxCalls
    /\ \E a \in Calls : args' = a
    /\ pc' = "download"
    /\ via' = "direct"
    /\ calls' = calls + 1
    /\ UNCHANGED <<env, status, error, frames, single, multi, loop, results,
                   prev>>

Range(s) == {s[i] : i \in 1..Len(s)}

\* 1) raw_data = yf.download(...); data = raw_data["Close"].dropna()
Download ==
    /\ pc = "download"
    /\ data' = DropNaAny(CloseFrame(market, Range(args.tickers)))
    /\ pc' = "returns"
    /\ UNCHANGED <<env, call, daily_returns, single, multi, loop, results,
                   prev, calls>>

\* 2) daily_returns = data.pct_change().dropna(how="all")
DailyReturns ==
    /\ pc = "returns"
    /\ daily_returns' = DropNaAll(PctChange(data))
    /\ pc' = "ticker"
    /\ UNCHANGED <<env, call, data, single, multi, loop, results, prev,
                   calls>>

\* for t in tickers: one iteration.  daily_returns[t] and then
\* daily_returns[("Close", t)] raise KeyError for a ticker with no column.
TickerMean ==
    /\ pc = "ticker"
    /\ Len(avg_annual_returns) < Len(args.tickers)
    /\ LET t == args.tickers[Len(avg_annual_returns) + 1]
       IN  IF t \in daily_returns.cols
           THEN /\ avg_annual_returns' =
                     Append(avg_annual_returns,
                            MeanAnnualRet(SeriesMean(Column(daily_returns, t))))
                /\ UNCHANGED <<pc, error>>
           ELSE /\ pc' = "raised"
                /\ error' = "KeyError"
                /\ UNCHANGED avg_annual_returns
    /\ UNCHANGED <<env, via, status, args, frames, portfolio_mean_return,
                   mu_log, sigma_log, total_growth, final_values_list, multi,
                   loop, results, prev, calls>>

\* mu_log = np.log(1 + portfolio_mean_return)
MuLogWrong(portfolio_mean) == Log(portfolio_mean)
MuLog(portfolio_mean) == Log(Add(One, portfolio_mean))

\* portfolio_mean_return, mu_log, sigma_log, rng = default_rng(seed=None),
\* final_values_list = []: the generator is seeded from the system's entropy.
PortfolioStats ==
    /\ pc = "ticker"
    /\ Len(avg_annual_returns) = Len(args.tickers)
    /\ portfolio_mean_return' = WeightedSum(args.weights, avg_annual_returns)
    /\ mu_log' = MuLog(portfolio_mean_return')
    /\ sigma_log' = args.portfolio_std_est
    /\ \E seed \in 0..MaxSeed :
         rng' = [source |-> "entropy", seed |-> seed, pos |-> 0]
    /\ final_values_list' = <<>>
    /\ sim_i' = 0
    /\ pc' = "path"
    /\ UNCHANGED <<env, call, frames, avg_annual_returns, total_growth, multi,
                   year_i, results, prev, calls>>

\* total_growth = 1.0, at the top of every path
PathGrowthKept(growth) == growth
PathGrowth(growth) == One

\* for _ in range(n_sims): total_growth = 1.0
PathStart ==
    /\ pc = "path"
    /\ sim_i < args.n_sims
    /\ sim_i' = sim_i + 1
    /\ total_growth' = PathGrowth(total_growth)
    /\ year_i' = 0
    /\ pc' = "year"
    /\ UNCHANGED <<env, call, frames, avg_annual_returns,
                   portfolio_mean_return, mu_log, sigma_log,
                   final_values_list, multi, rng, results, prev, calls>>

\* for _year in range(years): log_ret = rng.normal(mu_log, sigma_log);
\* annual_factor = np.exp(log_ret); total_growth *= annual_factor
YearStep ==
    /\ pc = "year"
    /\ year_i < args.years
    /\ LET log_ret == Normal(mu_log, sigma_log, Stream(rng.seed, rng.pos))
           annual_factor == Exp(log_ret)
       IN  total_growth' = Mul(total_growth, annual_factor)
    /\ rng' = [rng EXCEPT !.pos = @ + 1]
    /\ year_i' = year_i + 1
    /\ UNCHANGED <<env, pc, call, frames, avg_annual_returns,
                   portfolio_mean_return, mu_log, sigma_log,
                   final_values_list, multi, sim_i, results, prev, calls>>

\* initial_investment * total_growth
TerminalValueAdded(investment, growth) == Add(investment, growth)
TerminalValue(investment, growth) == Mul(investment, growth)

\* final_values_list.append(initial_investment * total_growth)
PathEnd ==
    /\ pc = "year"
    /\ year_i >= args.years
    /\ final_values_list' =
         Append(final_values_list,
                TerminalValue(args.initial_investment, total_growth))
    /\ pc' = "path"
    /\ UNCHANGED <<env, call, frames, avg_annual_returns,
                   portfolio_mean_return, mu_log, sigma_log, total_growth,
                   multi, loop, results, prev, calls>>

\* The quartiles, the mean and the sample itself, of a non-empty sample
Summary(sample) ==
    [built |-> TRUE,
     pct_25 |-> Percentile(sample, 25),
     pct_50 |-> Percentile(sample, 50),
     pct_75 |-> Percentile(sample, 75),
     mean |-> Mean(sample),
     all_final_values |-> sample]

\* np.percentile and np.mean of an empty array that did not raise
EmptySummary ==
    [built |-> TRUE, pct_25 |-> NaN, pct_50 |-> NaN, pct_75 |-> NaN,
     mean |-> NaN, all_final_values |-> <<>>]

\* 4) results = {...}; return results.  The route answers jsonify(results).
\* np.percentile of an empty array gives NaN or raises IndexError, as the
\* installed numpy has it.
Summarize ==
    /\ pc = "path"
    /\ sim_i >= args.n_sims
    /\ \/ /\ final_values_list # <<>>
          /\ results' = Summary(final_values_list)
          /\ pc' = "returned"
          /\ status' = IF via = "route" THEN 200 ELSE status
          /\ UNCHANGED error
       \/ /\ final_values_list = <<>>
          /\ results' = EmptySummary
          /\ pc' = "returned"
          /\ status' = IF via = "route" THEN 200 ELSE status
          /\ UNCHANGED error
       \/ /\ final_values_list = <<>>
          /\ pc' = "raised"
          /\ error' = "IndexError"
          /\ UNCHANGED <<results, status>>
    /\ UNCHANGED <<env, via, args, frames, single, multi, loop, prev, calls>>

\* ------------------------------------------ claude_3.5_monte_carlo.py
\* The script starts: numpy's global generator is seeded from the system's
\* entropy, and get_historical_data keeps the tickers whose fetch succeeded.
GetHistoricalData ==
    /\ program = "script"
    /\ pc = "idle"
    /\ calls < MaxCalls
    /\ \E a \in Runs : args' = a
    /\ \E seed \in 0..MaxSeed :
         rng' = [source |-> "global", seed |-> seed, pos |-> 0]
    /\ data' = CloseFrame(market, {holdings[i].asset : i \in 1..Len(holdings)})
    /\ pc' = "metrics"
    /\ via' = "script"
    /\ calls' = calls + 1
    /\ UNCHANGED <<env, status, error, daily_returns, single, multi, sim_i,
                   year_i, results, prev>>

\* calculate_metrics(df): 252 / len(daily_returns) raises ZeroDivisionError
\* for a frame with columns and no daily return.
CalculateMetrics ==
    /\ pc = "metrics"
    /\ daily_returns' = DropNaAny(PctChange(data))
    /\ IF daily_returns'.cols # {} /\ Len(daily_returns'.rows) = 0
       THEN /\ pc' = "raised"
            /\ error' = "ZeroDivisionError"
            /\ UNCHANGED <<returns, volatility>>
       ELSE /\ returns' =
                 [c \in daily_returns'.cols |->
                    GeometricAnnualRet(Column(daily_returns', c),
                                       Len(daily_returns'.rows))]
            /\ volatility' =
                 [c \in daily_returns'.cols |->
                    AnnualVolatility(Column(daily_returns', c))]
            /\ pc' = "sim"
            /\ UNCHANGED error
    /\ UNCHANGED <<env, via, status, args, data, single, asset_i,
                   annual_return, value, portfolio_returns, loop, results,
                   prev, calls>>

\* run_simulation: portfolio_returns = []
RunSimulation ==
    /\ pc = "sim"
    /\ portfolio_returns' = <<>>
    /\ sim_i' = 0
    /\ pc' = "s_path"
    /\ UNCHANGED <<env, call, frames, single, returns, volatility, asset_i,
                   annual_return, value, rng, year_i, results, prev, calls>>

\* for _ in range(num_simulations): value = initial_value
SimStart ==
    /\ pc = "s_path"
    /\ sim_i < args.num_simulations
    /\ sim_i' = sim_i + 1
    /\ value' = args.initial_value
    /\ year_i' = 0
    /\ pc' = "s_year"
    /\ UNCHANGED <<env, call, frames, single, returns, volatility, asset_i,
                   annual_return, portfolio_returns, rng, results, prev,
                   calls>>

\* for _ in range(years): annual_return = 0
YearStart ==
    /\ pc = "s_year"
    /\ year_i < args.years
    /\ annual_return' = Zero
    /\ asset_i' = 0
    /\ pc' = "s_asset"
    /\ UNCHANGED <<env, call, frames, single, returns, volatility, value,
                   portfolio_returns, loop, results, prev, calls>>

\* mu = np.log(1 + returns[asset]) - 0.5 * volatility[asset]**2
AssetMu(ret, vol) == LogMinus(Log(Add(One, ret)), Mul(Half, Mul(vol, vol)))

\* for asset, weight in holdings.items(): one iteration.  returns[asset]
\* raises KeyError for an asset that was not fetched.
AssetStep ==
    /\ pc = "s_asset"
    /\ asset_i < Len(holdings)
    /\ LET asset == holdings[asset_i + 1].asset
           weight == holdings[asset_i + 1].weight
       IN  IF asset \in DOMAIN returns
           THEN LET mu == AssetMu(returns[asset], volatility[asset])
                    sigma == volatility[asset]
                    random_return ==
                        Sub(Exp(Normal(mu, sigma, Stream(rng.seed, rng.pos))),
                            One)
                IN  /\ annual_return' =
                          Add(annual_return, Mul(random_return, weight))
                    /\ rng' = [rng EXCEPT !.pos = @ + 1]
                    /\ asset_i' = asset_i + 1
                    /\ UNCHANGED <<pc, error>>
           ELSE /\ pc' = "raised"
                /\ error' = "KeyError"
                /\ UNCHANGED <<annual_return, rng, asset_i>>
    /\ UNCHANGED <<env, via, status, args, frames, single, returns,
                   volatility, value, portfolio_returns, sim_i, year_i,
                   results, prev, calls>>

\* value *= (1 + annual_return)
YearEnd ==
    /\ pc = "s_asset"
    /\ asset_i >= Len(holdings)
    /\ value' = Mul(value, Add(One, annual_return))
    /\ year_i' = year_i + 1
    /\ pc' = "s_year"
    /\ UNCHANGED <<env, call, frames, single, returns, volatility, asset_i,
                   annual_return, portfolio_returns, rng, sim_i, results,
                   prev, calls>>

\* The list after portfolio_returns.append(value)
AppendedTwice(list, v) == Append(Append(list, v), v)
Appended(list, v) == Append(list, v)

\* portfolio_returns.append(value)
SimEnd ==
    /\ pc = "s_year"
    /\ year_i >= args.years
    /\ portfolio_returns' = Appended(portfolio_returns, value)
    /\ pc' = "s_path"
    /\ UNCHANGED <<env, call, frames, single, returns, volatility, asset_i,
                   annual_return, value, loop, results, prev, calls>>

\* results = run_simulation(); percentiles = np.percentile(results,
\* [25, 50, 75]); mean_value = np.mean(results)
Statistics ==
    /\ pc = "s_path"
    /\ sim_i >= args.num_simulations
    /\ \/ /\ portfolio_returns # <<>>
          /\ results' = Summary(portfolio_returns)
          /\ pc' = "returned"
          /\ UNCHANGED error
       \/ /\ portfolio_returns = <<>>
          /\ results' = EmptySummary
          /\ pc' = "returned"
          /\ UNCHANGED error
       \/ /\ portfolio_returns = <<>>
          /\ pc' = "raised"
          /\ error' = "IndexError"
          /\ UNCHANGED results
    /\ UNCHANGED <<env, via, status, args, frames, single, multi, loop, prev,
                   calls>>

\* ------------------------------------------------------------ the caller
\* The run is over; its caller keeps what it returned and may run again.
NextCall ==
    /\ pc \in {"returned", "raised", "responded"}
    /\ calls < MaxCalls
    /\ prev' = IF pc = "returned"
               THEN [set |-> TRUE, args |-> args, seed |-> rng.seed,
                     results |-> results]
               ELSE prev
    /\ pc' = "idle"
    /\ via' = "none"
    /\ status' = 0
    /\ error' = ""
    /\ args' = NoArgs
    /\ data' = EmptyFrame
    /\ daily_returns' = EmptyFrame
    /\ avg_annual_returns' = <<>>
    /\ portfolio_mean_return' = Zero
    /\ mu_log' = Log(One)
    /\ sigma_log' = Zero
    /\ total_growth' = One
    /\ final_values_list' = <<>>
    /\ returns' = NoStats
    /\ volatility' = NoStats
    /\ asset_i' = 0
    /\ annual_return' = Zero
    /\ value' = Zero
    /\ portfolio_returns' = <<>>
    /\ rng' = NoRng
    /\ sim_i' = 0
    /\ year_i' = 0
    /\ results' = NoResults
    /\ UNCHANGED <<env, calls>>

Next ==
    \/ SimulateNoKeys
    \/ SimulateMismatch
    \/ SimulateCall
    \/ DirectCall
    \/ Download
    \/ DailyReturns
    \/ TickerMean
    \/ PortfolioStats
    \/ PathStart
    \/ YearStep
    \/ PathEnd
    \/ Summarize
    \/ GetHistoricalData
    \/ CalculateMetrics
    \/ RunSimulation
    \/ SimStart
    \/ YearStart
    \/ AssetStep
    \/ YearEnd
    \/ SimEnd
    \/ Statistics
    \/ NextCall

Spec == Init /\ [][Next]_vars

\* ============================================================ the claims
ServiceRun == program = "service" /\ via \in {"route", "direct"}
                  /\ pc \notin {"idle", "responded"}
ScriptRun == program = "script" /\ via = "script"
Twice(x) == Mul(Whole(2), x)

\* C1: a completed run of a valid configuration (at least one path, at least
\* one year) returns a sample of exactly simulationCount values, in the
\* single-factor run and in the multi-factor run.
C1_SampleLength ==
    /\ (ServiceRun /\ pc = "returned" /\ args.n_sims >= 1 /\ args.years >= 1)
          => Len(results.all_final_values) = args.n_sims
    /\ (ScriptRun /\ pc = "returned" /\ args.num_simulations >= 1
          /\ args.years >= 1)
          => Len(results.all_final_values) = args.num_simulations

C1_Witness ==
    /\ ScriptRun
    /\ pc = "returned"
    /\ args.num_simulations = MaxSims
    /\ args.years = MaxYears
    /\ Len(results.all_final_values) = MaxSims
    /\ ~HasNaN(results.all_final_values)

\* C2: a run asked for no path or no year (simulationCount <= 0 or
\* horizonYears <= 0) builds no sample and no summary.
C2_NonPositiveRejected ==
    (ServiceRun /\ (args.n_sims <= 0 \/ args.years <= 0))
       => /\ pc # "returned"
          /\ ~results.built
          /\ final_values_list = <<>>

\* C3: a run that fails on an asset missing from the statistics has taken no
\* random draw and holds no partial sample.
C3_FailsBeforeDraws ==
    (pc = "raised" /\ error = "KeyError")
       => /\ rng.pos = 0
          /\ final_values_list = <<>>
          /\ portfolio_returns = <<>>

\* C4: with tickers and weights of different lengths no simulation runs and
\* the weighted mean return is not computed, through the route and in a
\* direct call.
C4_MismatchRejected ==
    (program = "service" /\ via \in {"route", "direct"} /\ args # NoArgs
       /\ Len(args.tickers) # Len(args.weights))
       => pc \notin {"path", "year", "returned"}

\* C5: N clean prices give N - 1 daily returns, and with fewer than two
\* clean prices the estimation fails: no statistic is produced and no
\* simulation begins.
C5_ReturnsAndDataError ==
    /\ (ServiceRun /\ pc \in {"ticker", "path", "year", "returned"})
          => /\ Len(data.rows) >= 1
                   => Len(daily_returns.rows) = Len(data.rows) - 1
             /\ Len(data.rows) < 2
                   => avg_annual_returns = <<>> /\ pc = "ticker"
    /\ (ScriptRun /\ pc \notin {"idle", "metrics", "raised"})
          => /\ Len(daily_returns.rows) = Len(data.rows) - 1
             /\ Len(data.rows) >= 2

\* C6: two runs that differ only in the initial investment, I and 2 * I, and
\* take the same draws: every entry of the second sample, the quartiles and
\* the mean are twice those of the first, in both strategies.
C6_ScaleInvariance ==
    (pc = "returned" /\ prev.set /\ rng.seed = prev.seed
       /\ \/ ServiceRun /\ args = [prev.args EXCEPT
                                     !.initial_investment = Twice(@)]
          \/ ScriptRun /\ args = [prev.args EXCEPT
                                    !.initial_value = Twice(@)])
       => /\ Len(results.all_final_values)
                = Len(prev.results.all_final_values)
          /\ \A k \in 1..Len(results.all_final_values) :
                results.all_final_values[k]
                   = Twice(prev.results.all_final_values[k])
          /\ results.pct_25 = Twice(prev.results.pct_25)
          /\ results.pct_50 = Twice(prev.results.pct_50)
          /\ results.pct_75 = Twice(prev.results.pct_75)
          /\ results.mean = Twice(prev.results.mean)

C6_Witness ==
    /\ pc = "returned"
    /\ prev.set
    /\ rng.seed = prev.seed
    /\ ScriptRun
    /\ args = [prev.args EXCEPT !.initial_value = Twice(@)]
    /\ Len(results.all_final_values) = MaxSims
    /\ args.years = MaxYears
    /\ ~HasNaN(results.all_final_values)
    /\ results.all_final_values[1] # results.all_final_values[2]

\* C7: with portfolio_std_est = 0 the single-factor run is carried out and
\* every terminal value is initial_investment * (1 + portfolio_mean_return)
\* ^ years; the quartiles and the mean coincide with it.
C7_ZeroVolatility ==
    (ServiceRun /\ pc = "returned" /\ args.portfolio_std_est = Zero)
       => LET v == Mul(args.initial_investment,
                       Pow(Add(One, portfolio_mean_return), args.years))
          IN  /\ \A k \in 1..Len(results.all_final_values) :
                    results.all_final_values[k] = v
              /\ results.pct_25 = results.pct_50
              /\ results.pct_50 = results.pct_75
              /\ results.pct_75 = results.mean
              /\ results.all_final_values # <<>> => results.mean = v

C7_Witness ==
    /\ ServiceRun
    /\ pc = "returned"
    /\ args.portfolio_std_est = Zero
    /\ args.years = MaxYears
    /\ Len(results.all_final_values) = MaxSims
    /\ portfolio_mean_return = Half
    /\ results.mean = Mul(args.initial_investment, <<9, 4>>)

\* C8: every draw comes from a generator the caller seeded, and two runs of
\* the same configuration under the same caller-given seed return the same
\* sample.
C8_SeedDeterminism ==
    /\ rng.pos > 0 => rng.source = "caller"
    /\ (pc = "returned" /\ prev.set /\ args = prev.args
          /\ rng.source = "caller" /\ rng.seed = prev.seed)
          => results.all_final_values = prev.results.all_final_values

SampleMin(s) == CHOOSE x \in Range(s) : HasNaN(s) \/ \A y \in Range(s) : Leq(x, y)
SampleMax(s) == CHOOSE x \in Range(s) : HasNaN(s) \/ \A y \in Range(s) : Leq(y, x)

\* C9: for a non-empty sample, pct_25 <= pct_50 <= pct_75, and the three lie
\* between the least and the greatest value of the sample.
C9_PercentileOrder ==
    (pc = "returned" /\ results.all_final_values # <<>>)
       => /\ Leq(results.pct_25, results.pct_50)
          /\ Leq(results.pct_50, results.pct_75)
          /\ Leq(SampleMin(results.all_final_values), results.pct_25)
          /\ Leq(results.pct_75, SampleMax(results.all_final_values))

\* The factor of draw i of the run's stream
FactorOfDraw(i) == Exp(Normal(mu_log, sigma_log, Stream(rng.seed, i)))

\* C10: in the single-factor run path k (0-based) takes the draws
\* k * years .. (k + 1) * years - 1 and no other: its growth starts at 1,
\* its entry of the sample is initial_investment times the product of the
\* exponentials of those draws, the run takes n_sims * years draws, and the
\* summary is that of the returned sample, which is in generation order.
C10_PathsIndependent ==
    (ServiceRun /\ pc \in {"path", "year", "returned"})
       => /\ \A k \in 1..Len(final_values_list) :
                final_values_list[k] =
                   Mul(args.initial_investment,
                       ProdSeq([j \in 1..args.years |->
                                  FactorOfDraw((k - 1) * args.years + j - 1)]))
          /\ pc = "year"
                => /\ Len(final_values_list) = sim_i - 1
                   /\ rng.pos = (sim_i - 1) * args.years + year_i
                   /\ total_growth =
                        ProdSeq([j \in 1..year_i |->
                                   FactorOfDraw((sim_i - 1) * args.years + j - 1)])
          /\ pc = "path"
                => /\ Len(final_values_list) = sim_i
                   /\ rng.pos = sim_i * args.years
          /\ pc = "returned"
                => /\ rng.pos = args.n_sims * args.years
                   /\ results.all_final_values = final_values_list
                   /\ final_values_list # <<>>
                         => results = Summary(final_values_list)

C10_Witness ==
    /\ ServiceRun
    /\ pc = "returned"
    /\ args.n_sims = MaxSims
    /\ args.years = MaxYears
    /\ sigma_log = One
    /\ rng.seed = 1
    /\ ~HasNaN(final_values_list)
    /\ final_values_list[1] # final_values_list[2]

====
